---- MODULE Spec2Model ----
(***************************************************************************)
(* Model of rank_choicer: RankChoiceCounter (rank_choice_counter.py),      *)
(* RoundResult (round_result.py) and EliminationStrategy                   *)
(* (elimination_strategy.py).                                              *)
(*                                                                         *)
(* Python values are represented as follows.                               *)
(*   str        a sequence of one-character strings; "" is << >>           *)
(*   None       the value None below (no str equals it); NoneList where a  *)
(*              list is expected                                           *)
(*   list       a sequence                                                 *)
(*   dict       a sequence of <<key, value>> pairs with distinct keys, in  *)
(*              insertion order (Python dicts iterate in insertion order)  *)
(***************************************************************************)
EXTENDS Integers, Sequences, FiniteSets, TLC

(* ------------------------------ bounds --------------------------------- *)
MaxOptions == 3
MaxVoters == 2
MaxPrefs == 2

(* --------------------------- Python values ----------------------------- *)
None == <<"None">>
IsStr(x) == x # None
\* None where a list is expected (no list of str equals it)
NoneList == <<None>>

sA == <<"A">>
sEmpty == << >>
sSpaceA == <<" ", "A">>
sSpace == <<" ">>

Range(s) == {s[i] : i \in 1..Len(s)}
NoDuplicates(s) == Cardinality(Range(s)) = Len(s)
SeqsUpTo(S, n) == UNION {[1..k -> S] : k \in 0..n}
Contains(s, x) == \E i \in 1..Len(s) : s[i] = x

\* str.strip(): drop leading and trailing whitespace
IsSpace(c) == c = " "

RECURSIVE LStrip(_)
LStrip(s) == IF s = << >> THEN s
             ELSE IF IsSpace(Head(s)) THEN LStrip(Tail(s)) ELSE s

RECURSIVE RStrip(_)
RStrip(s) == IF s = << >> THEN s
             ELSE IF IsSpace(s[Len(s)]) THEN RStrip(SubSeq(s, 1, Len(s) - 1)) ELSE s

Strip(s) == RStrip(LStrip(s))

\* Python truthiness of a str-or-None value: None and "" are falsy
Truthy(x) == x # None /\ x # << >>

\* list.remove(x): delete the first occurrence of x
RECURSIVE ListRemove(_, _)
ListRemove(s, x) == IF s = << >> THEN s
                    ELSE IF Head(s) = x THEN Tail(s)
                    ELSE <<Head(s)>> \o ListRemove(Tail(s), x)

(* ------------------------------- dicts --------------------------------- *)
Keys(d) == [i \in 1..Len(d) |-> d[i][1]]
Values(d) == [i \in 1..Len(d) |-> d[i][2]]
HasKey(d, k) == \E i \in 1..Len(d) : d[i][1] = k

RECURSIVE Sum(_)
Sum(s) == IF s = << >> THEN 0 ELSE Head(s) + Sum(Tail(s))

(* ----------------------------- exceptions ------------------------------ *)
NoExc == [type |-> "none", msg |-> "", voter |-> None]
Exc(t, m, v) == [type |-> t, msg |-> m, voter |-> v]

MsgEmptyOptions == "Options list cannot be empty"
MsgDuplicateOptions == "Duplicate options are not allowed"
MsgOptionExists == "Option already exists"
MsgOptionMissing == "Option does not exist"
MsgTie == "Ended with a tie. Review round results."
MsgInvalidVoter == "Invalid voter"
MsgTooMany == "Too many preferences from"
MsgEmptyPrefs == "Empty preference list from"
MsgInvalidType == "Invalid vote type from"
MsgInvalidOptions == "Invalid options in vote from"
MsgDuplicatePrefs == "Duplicate preferences in vote from"
MsgMinEmpty == "min() arg is an empty sequence"
MsgUnexpectedKeyword == "RoundResult.__init__() got an unexpected keyword argument"
MsgNegativeRound == "Round number must be non-negative"
MsgNoAttribute == "'RoundResult' object has no attribute"
MsgNotIterable == "'NoneType' object is not iterable"

(* --------------------------- round_result.py --------------------------- *)
\* the fields the dataclass declares, hence the keywords its __init__ takes
RoundResultFields == {"round_number", "vote_counts", "eliminated_option", "winner"}

\* RoundResult(**kwargs): the generated __init__ followed by __post_init__
RoundResult(kwargs) ==
    IF DOMAIN kwargs # RoundResultFields
    THEN [exc |-> Exc("TypeError", MsgUnexpectedKeyword, None), value |-> None]
    ELSE IF kwargs.round_number < 0
    THEN [exc |-> Exc("ValueError", MsgNegativeRound, None), value |-> None]
    ELSE [exc |-> NoExc, value |-> kwargs]

(* ----------------------- elimination_strategy.py ----------------------- *)
EliminationStrategy == {"BATCH", "RANDOM"}

(* ----------------- RankChoiceCounter._validate_votes ------------------- *)
\* _validate_votes without its last check (duplicate preferences)
ValidateBallot_NoDuplicateCheck(opts, voter, preferences) ==
    IF ~IsStr(voter) \/ Strip(voter) = << >>
    THEN Exc("ValueError", MsgInvalidVoter, None)
    ELSE IF Len(preferences) > Len(opts)
    THEN Exc("ValueError", MsgTooMany, voter)
    ELSE IF preferences = << >>
    THEN Exc("ValueError", MsgEmptyPrefs, voter)
    ELSE IF \E i \in 1..Len(preferences) : ~IsStr(preferences[i])
    THEN Exc("ValueError", MsgInvalidType, voter)
    ELSE IF Range(preferences) \ Range(opts) # {}
    THEN Exc("ValueError", MsgInvalidOptions, voter)
    ELSE NoExc

\* _validate_votes with the duplicate check moved before the length check
ValidateBallot_DuplicatesFirst(opts, voter, preferences) ==
    IF ~IsStr(voter) \/ Strip(voter) = << >>
    THEN Exc("ValueError", MsgInvalidVoter, None)
    ELSE IF Cardinality(Range(preferences)) # Len(preferences)
    THEN Exc("ValueError", MsgDuplicatePrefs, voter)
    ELSE IF Len(preferences) > Len(opts)
    THEN Exc("ValueError", MsgTooMany, voter)
    ELSE IF preferences = << >>
    THEN Exc("ValueError", MsgEmptyPrefs, voter)
    ELSE IF \E i \in 1..Len(preferences) : ~IsStr(preferences[i])
    THEN Exc("ValueError", MsgInvalidType, voter)
    ELSE IF Range(preferences) \ Range(opts) # {}
    THEN Exc("ValueError", MsgInvalidOptions, voter)
    ELSE NoExc

\* the checks of one iteration of the loop over votes.items()
ValidateBallot(opts, voter, preferences) ==
    IF ~IsStr(voter) \/ Strip(voter) = << >>
    THEN Exc("ValueError", MsgInvalidVoter, None)
    ELSE IF Len(preferences) > Len(opts)
    THEN Exc("ValueError", MsgTooMany, voter)
    ELSE IF preferences = << >>
    THEN Exc("ValueError", MsgEmptyPrefs, voter)
    ELSE IF \E i \in 1..Len(preferences) : ~IsStr(preferences[i])
    THEN Exc("ValueError", MsgInvalidType, voter)
    ELSE IF Range(preferences) \ Range(opts) # {}
    THEN Exc("ValueError", MsgInvalidOptions, voter)
    ELSE IF Cardinality(Range(preferences)) # Len(preferences)
    THEN Exc("ValueError", MsgDuplicatePrefs, voter)
    ELSE NoExc

RECURSIVE _validate_votes(_, _)
_validate_votes(opts, votes) ==
    IF votes = << >> THEN NoExc
    ELSE LET e == ValidateBallot(opts, Head(votes)[1], Head(votes)[2])
         IN  IF e # NoExc THEN e ELSE _validate_votes(opts, Tail(votes))

(* ----------------- RankChoiceCounter._calculate_round ------------------ *)
\* [prefs[0] for prefs in votes.values() if prefs]
RECURSIVE first_prefs(_)
first_prefs(votes) ==
    IF votes = << >> THEN << >>
    ELSE IF Head(votes)[2] # << >>
    THEN <<Head(votes)[2][1]>> \o first_prefs(Tail(votes))
    ELSE first_prefs(Tail(votes))

\* one step of Counter(...): count x into the dict d
CountInto(d, x) ==
    IF HasKey(d, x)
    THEN [i \in 1..Len(d) |-> IF d[i][1] = x THEN <<x, d[i][2] + 1>> ELSE d[i]]
    ELSE Append(d, <<x, 1>>)

\* dict(Counter(first_prefs)): keys in order of first occurrence
RECURSIVE CounterInto(_, _)
CounterInto(d, xs) ==
    IF xs = << >> THEN d ELSE CounterInto(CountInto(d, Head(xs)), Tail(xs))

\* for option in self._options: if option not in vote_counts: vote_counts[option] = 0
RECURSIVE FillZero(_, _)
FillZero(d, opts) ==
    IF opts = << >> THEN d
    ELSE IF HasKey(d, Head(opts)) THEN FillZero(d, Tail(opts))
    ELSE FillZero(Append(d, <<Head(opts), 0>>), Tail(opts))

vote_counts(opts, votes) == FillZero(CounterInto(<< >>, first_prefs(votes)), opts)

total_votes(counts) == Sum(Values(counts))

\* count > majority_threshold, where majority_threshold = total_votes / 2 in
\* real division
ExceedsThreshold(count, total) == 2 * count > total

\* positions of vote_counts that pass the winner test
MajorityIndexes(counts) ==
    {i \in 1..Len(counts) : ExceedsThreshold(counts[i][2], total_votes(counts))}

SetMin(S) == CHOOSE x \in S : \A y \in S : x <= y

\* counts of the options that are not in self._eliminated_options
ActiveCounts(counts, eliminated) ==
    {counts[i][2] : i \in {j \in 1..Len(counts) : ~Contains(eliminated, counts[j][1])}}

tied_for_last(counts, eliminated) ==
    LET min_votes == SetMin(ActiveCounts(counts, eliminated))
        Tied(p) == p[2] = min_votes /\ ~Contains(eliminated, p[1])
    IN  Keys(SelectSeq(counts, Tied))

\* what the strategy hands to RoundResult as eliminated_options, one list per
\* outcome of random.choice
EliminationChoices(strategy, tied) ==
    IF strategy = "BATCH" THEN {tied}
    ELSE {<<tied[i]>> : i \in 1..Len(tied)}

\* the set of outcomes of _calculate_round: [exc, value]
_calculate_round(opts, strategy, eliminated, round_number, votes) ==
    LET counts == vote_counts(opts, votes)
        winners == MajorityIndexes(counts)
    IN  IF winners # {}
        THEN {RoundResult([round_number |-> round_number,
                           vote_counts |-> counts,
                           eliminated_options |-> NoneList,
                           winner |-> counts[SetMin(winners)][1]])}
        ELSE IF ActiveCounts(counts, eliminated) = {}
        THEN {[exc |-> Exc("ValueError", MsgMinEmpty, None), value |-> None]}
        ELSE {RoundResult([round_number |-> round_number,
                           vote_counts |-> counts,
                           winner |-> None,
                           eliminated_options |-> e]) :
                e \in EliminationChoices(strategy, tied_for_last(counts, eliminated))}

(* ------------------------------- inputs -------------------------------- *)
\* strings offered to the constructor; the mutators are offered OptionArgs
RawOptionStrings == {sA, sSpaceA, sSpace}
OptionArgs == {sA, sEmpty, sSpaceA}
\* what a ballot entry can be: an option name or None
PrefValues == {sA, sEmpty, None}
\* voter ids "v1", "v2", ...
Digits == <<"1", "2", "3", "4", "5", "6", "7", "8", "9">>
VoterId(i) == <<"v", Digits[i]>>
\* dict keys that are not acceptable voter ids: a blank str and a non-str
BadVoters == {sSpace, None}

OptionLists(S) == SeqsUpTo(S, MaxOptions)
\* preference lists; a None entry is offered in the last place only (no check of
\* _validate_votes depends on where in the list a non-str entry stands)
Ballots ==
    {b \in SeqsUpTo(PrefValues, MaxPrefs) : \A i \in 1..(Len(b) - 1) : b[i] # None}

\* ballot mappings: the i-th key is the i-th voter id; a bad key is offered in
\* mappings of one ballot (the voter check looks at one key at a time)
VoteMapsOfLen(k) == {[i \in 1..k |-> <<VoterId(i), b[i]>>] : b \in [1..k -> Ballots]}

BadVoterMaps == {<< <<voter, b>> >> : voter \in BadVoters, b \in Ballots}

VoteMaps == BadVoterMaps \cup UNION {VoteMapsOfLen(k) : k \in 0..MaxVoters}

(* -------------------------------- state -------------------------------- *)
VARIABLES
    _options,              \* self._options
    _elimination_strategy, \* self._elimination_strategy
    _round_results,        \* self._round_results
    _eliminated_options,   \* self._eliminated_options
    op,                    \* the method being executed or last executed, "none" between calls
    pc,                    \* "new", "idle", "loop" (line 116), "return", "raise",
                           \* "holds" or "mutated" (the caller keeps a list of the call)
    arg,                   \* the argument as the caller passed it
    ret,                   \* the value the call returned
    votes,                 \* count_votes: the caller's mapping, as it is now
    current_votes,         \* count_votes: the working copy
    round_num,             \* count_votes: round_num
    winner,                \* count_votes: winner
    exc                    \* the exception leaving the method when pc = "raise"

engine == <<_options, _elimination_strategy, _round_results, _eliminated_options>>
locals == <<votes, current_votes, round_num, winner>>
vars == <<_options, _elimination_strategy, _round_results, _eliminated_options,
          op, pc, arg, ret, votes, current_votes, round_num, winner, exc>>

(* --------------------------- list objects ------------------------------ *)
\* a list object: its content and which object it is: "_options" or
\* "_round_results" for the object that engine field refers to, "arg" for the
\* caller's own list passed as the argument, "new" for a list just created
Ref(list, obj) == [list |-> list, obj |-> obj]

\* list.copy(): a new object with the same content
ListCopy(ref) == Ref(ref.list, "new")

(* ---------------------- RankChoiceCounter.__init__ --------------------- *)
\* the comprehension of line 25 without strip()
sanitized_options_NoStrip(raw) == raw

\* line 25
sanitized_options(raw) == [i \in 1..Len(raw) |-> Strip(raw[i])]

ConstructorError(raw) ==
    IF raw = << >> THEN Exc("ValueError", MsgEmptyOptions, None)
    ELSE IF Cardinality(Range(sanitized_options(raw))) # Len(sanitized_options(raw))
    THEN Exc("ValueError", MsgDuplicateOptions, None)
    ELSE NoExc

\* the arguments of RankChoiceCounter(options, elimination_strategy); options is
\* a list object of the caller
InitArgs(raw, strategy) == [options |-> Ref(raw, "arg"), elimination_strategy |-> strategy]

\* line 32: the object stored in self._options
InitStored(raw) == ListCopy(Ref(sanitized_options(raw), "new"))

\* the constructor call, from the state in which no engine exists yet
__init__ ==
    /\ pc = "new"
    /\ op' = "__init__"
    /\ IF ConstructorError(arg.options.list) # NoExc
       THEN /\ exc' = ConstructorError(arg.options.list)
            /\ pc' = "raise"
            /\ UNCHANGED engine
       ELSE /\ _options' = InitStored(arg.options.list).list
            /\ _round_results' = << >>
            /\ _elimination_strategy' = arg.elimination_strategy
            /\ _eliminated_options' = << >>
            /\ exc' = NoExc
            /\ pc' = "return"
    /\ UNCHANGED <<arg, ret, locals>>

\* before the constructor call: the caller has chosen the arguments
InitNew ==
    \E raw \in OptionLists(RawOptionStrings), strategy \in EliminationStrategy :
        /\ arg = InitArgs(raw, strategy)
        /\ ret = None
        /\ _options = NoneList
        /\ _elimination_strategy = "unset"
        /\ _round_results = NoneList
        /\ _eliminated_options = NoneList
        /\ op = "none"
        /\ pc = "new"
        /\ votes = << >>
        /\ current_votes = << >>
        /\ round_num = 0
        /\ winner = None
        /\ exc = NoExc

\* the constructor has returned an engine
Init ==
    \E raw \in OptionLists(RawOptionStrings), strategy \in EliminationStrategy :
        /\ ConstructorError(raw) = NoExc
        /\ arg = InitArgs(raw, strategy)
        /\ ret = None
        /\ _options = InitStored(raw).list
        /\ _elimination_strategy = strategy
        /\ _round_results = << >>
        /\ _eliminated_options = << >>
        /\ op = "__init__"
        /\ pc = "return"
        /\ votes = << >>
        /\ current_votes = << >>
        /\ round_num = 0
        /\ winner = None
        /\ exc = NoExc

\* how a method without a loop ends: it raises e, or returns if e is NoExc
Finish(name, e) ==
    /\ op' = name
    /\ pc' = IF e = NoExc THEN "return" ELSE "raise"
    /\ exc' = e

(* ------------------------- option accessors ---------------------------- *)
\* options (getter) returning self._options itself
options_getter_value_NoCopy == Ref(_options, "_options")

\* line 44: the object the getter returns
options_getter_value == ListCopy(Ref(_options, "_options"))

options_getter ==
    /\ pc = "idle"
    /\ ret' = options_getter_value
    /\ arg' = None
    /\ Finish("options", NoExc)
    /\ UNCHANGED <<engine, locals>>

\* line 145: the object get_round_results returns
get_round_results_value == ListCopy(Ref(_round_results, "_round_results"))

get_round_results ==
    /\ pc = "idle"
    /\ ret' = get_round_results_value
    /\ arg' = None
    /\ Finish("get_round_results", NoExc)
    /\ UNCHANGED <<engine, locals>>

(* ------------------------- option mutators ----------------------------- *)
\* options.setter
options_setter_error(new_options) ==
    IF new_options = << >> THEN Exc("ValueError", MsgEmptyOptions, None)
    ELSE IF Cardinality(Range(new_options)) # Len(new_options)
    THEN Exc("ValueError", MsgDuplicateOptions, None)
    ELSE NoExc

\* line 60: the object stored in self._options
options_setter_stored(new_options) == ListCopy(Ref(new_options, "arg"))

\* the caller's list after the call: the engine's own object if line 60 stored it
options_setter(new_options) ==
    /\ pc = "idle"
    /\ _options' = IF options_setter_error(new_options) = NoExc
                   THEN options_setter_stored(new_options).list ELSE _options
    /\ arg' = IF options_setter_error(new_options) = NoExc
                 /\ options_setter_stored(new_options).obj = "arg"
              THEN Ref(new_options, "_options") ELSE Ref(new_options, "arg")
    /\ ret' = None
    /\ Finish("options.setter", options_setter_error(new_options))
    /\ UNCHANGED <<_elimination_strategy, _round_results, _eliminated_options, locals>>

\* add_option appending before it checks
add_option_AppendBeforeCheck(option) ==
    /\ pc = "idle"
    /\ arg' = option
    /\ ret' = None
    /\ _options' = Append(_options, option)
    /\ IF Contains(_options, option)
       THEN Finish("add_option", Exc("ValueError", MsgOptionExists, None))
       ELSE Finish("add_option", NoExc)
    /\ UNCHANGED <<_elimination_strategy, _round_results, _eliminated_options, locals>>

add_option(option) ==
    /\ pc = "idle"
    /\ arg' = option
    /\ ret' = None
    /\ IF Contains(_options, option)
       THEN /\ Finish("add_option", Exc("ValueError", MsgOptionExists, None))
            /\ UNCHANGED _options
       ELSE /\ _options' = Append(_options, option)
            /\ Finish("add_option", NoExc)
    /\ UNCHANGED <<_elimination_strategy, _round_results, _eliminated_options, locals>>

remove_option(option) ==
    /\ pc = "idle"
    /\ arg' = option
    /\ ret' = None
    /\ IF ~Contains(_options, option)
       THEN /\ Finish("remove_option", Exc("ValueError", MsgOptionMissing, None))
            /\ UNCHANGED _options
       ELSE /\ _options' = ListRemove(_options, option)
            /\ Finish("remove_option", NoExc)
    /\ UNCHANGED <<_elimination_strategy, _round_results, _eliminated_options, locals>>

\* clear_results
ClearedResults == << >>

clear_results ==
    /\ pc = "idle"
    /\ _round_results' = ClearedResults
    /\ _eliminated_options' = ClearedResults
    /\ Finish("clear_results", NoExc)
    /\ UNCHANGED <<_options, _elimination_strategy, arg, ret, locals>>

(* ------------------- RoundResult built by the caller ------------------- *)
\* RoundResult(round_number, vote_counts, eliminated_option, winner), as the
\* tests of round_result.py call it
NewRoundResult(kwargs) ==
    /\ pc = "idle"
    /\ arg' = kwargs
    /\ ret' = RoundResult(kwargs).value
    /\ Finish("RoundResult", RoundResult(kwargs).exc)
    /\ UNCHANGED <<engine, locals>>

(* ---------------------- RankChoiceCounter.count_votes ------------------ *)
\* lines 107-114: validate, clear the results, copy the votes; votes.copy() is a
\* new dict whose values are the caller's own list objects
count_votes(v) ==
    /\ pc = "idle"
    /\ op' = "count_votes"
    /\ votes' = v
    /\ IF _validate_votes(_options, v) # NoExc
       THEN /\ exc' = _validate_votes(_options, v)
            /\ pc' = "raise"
            /\ UNCHANGED <<_round_results, _eliminated_options, current_votes, round_num, winner>>
       ELSE /\ _round_results' = ClearedResults
            /\ _eliminated_options' = ClearedResults
            /\ current_votes' = v
            /\ round_num' = 1
            /\ winner' = None
            /\ exc' = NoExc
            /\ pc' = "loop"
    /\ arg' = v
    /\ UNCHANGED <<_options, _elimination_strategy, ret>>

\* for eliminated in ...: for prefs in current_votes.values(): prefs.remove(eliminated)
RECURSIVE StripEliminated(_, _)
StripEliminated(cv, elims) ==
    IF elims = << >> THEN cv
    ELSE StripEliminated(
            [i \in 1..Len(cv) |->
                <<cv[i][1], IF Contains(cv[i][2], Head(elims))
                            THEN ListRemove(cv[i][2], Head(elims))
                            ELSE cv[i][2]>>],
            Tail(elims))

\* lines 116-134: one iteration of the while loop; the lists line 129 removes
\* from are the caller's (the values of votes and of current_votes are the same
\* objects)
count_votes_loop ==
    /\ pc = "loop"
    /\ \E r \in _calculate_round(_options, _elimination_strategy, _eliminated_options,
                               round_num, current_votes) :
        IF r.exc # NoExc
        THEN /\ exc' = r.exc
             /\ pc' = "raise"
             /\ UNCHANGED <<_round_results, _eliminated_options, votes, current_votes,
                            round_num, winner>>
        ELSE /\ _round_results' = Append(_round_results, r.value)
             /\ IF Truthy(r.value.winner)
                THEN /\ winner' = r.value.winner
                     /\ pc' = "return"
                     /\ UNCHANGED <<_eliminated_options, votes, current_votes, round_num, exc>>
                ELSE IF "eliminated_options" \notin DOMAIN r.value
                THEN /\ exc' = Exc("AttributeError", MsgNoAttribute, None)
                     /\ pc' = "raise"
                     /\ UNCHANGED <<_eliminated_options, votes, current_votes, round_num, winner>>
                ELSE IF r.value.eliminated_options = NoneList
                THEN /\ exc' = Exc("TypeError", MsgNotIterable, None)
                     /\ pc' = "raise"
                     /\ UNCHANGED <<_eliminated_options, votes, current_votes, round_num, winner>>
                ELSE /\ _eliminated_options' = _eliminated_options \o r.value.eliminated_options
                     /\ current_votes' = StripEliminated(current_votes, r.value.eliminated_options)
                     /\ votes' = StripEliminated(votes, r.value.eliminated_options)
                     /\ UNCHANGED winner
                     /\ IF Len(_eliminated_options') = Len(_options)
                        THEN /\ exc' = Exc("ValueError", MsgTie, None)
                             /\ pc' = "raise"
                             /\ UNCHANGED round_num
                        ELSE /\ round_num' = round_num + 1
                             /\ pc' = "loop"
                             /\ UNCHANGED exc
    /\ UNCHANGED <<_options, _elimination_strategy, op, arg, ret>>

(* ------------------------------ the caller ----------------------------- *)
\* the calls after which the caller is left holding a list of the call: the
\* list it passed (__init__, options.setter) or the list it got (the accessors)
HoldingOps == {"__init__", "options.setter", "options", "get_round_results"}

\* the method has returned or raised: control is back at the caller and the
\* locals of the call are gone
Exit ==
    /\ pc \in {"return", "raise"}
    /\ op \notin HoldingOps
    /\ op' = "none"
    /\ pc' = "idle"
    /\ arg' = None
    /\ ret' = None
    /\ votes' = << >>
    /\ current_votes' = << >>
    /\ round_num' = 0
    /\ winner' = None
    /\ exc' = NoExc
    /\ UNCHANGED engine

\* the same, after a call that leaves the caller with a list; a constructor
\* that raised leaves no engine to go on with
ExitHolding ==
    /\ pc \in {"return", "raise"}
    /\ op \in HoldingOps
    /\ ~(op = "__init__" /\ pc = "raise")
    /\ pc' = "holds"
    /\ exc' = NoExc
    /\ UNCHANGED <<engine, op, arg, ret, locals>>

\* the list the caller holds
Held == IF op = "__init__" THEN arg.options
        ELSE IF op = "options.setter" THEN arg ELSE ret

\* what the caller can do to a list: append x, remove the first element,
\* replace the first element by x
ListMutations(l, x) ==
    {Append(l, x)} \cup
    (IF l = << >> THEN {} ELSE {Tail(l), [l EXCEPT ![1] = x]})

\* elements the caller puts into a list it holds
CallerElements == IF op = "get_round_results" THEN {None} ELSE OptionArgs

\* the caller changes the list it holds; the change shows in an engine field
\* exactly when the list is the object that field refers to
CallerMutates ==
    /\ pc = "holds"
    /\ \E x \in CallerElements : \E l \in ListMutations(Held.list, x) :
        /\ l # Held.list
        /\ IF op = "__init__" THEN arg' = [arg EXCEPT !.options.list = l] /\ UNCHANGED ret
           ELSE IF op = "options.setter" THEN arg' = [arg EXCEPT !.list = l] /\ UNCHANGED ret
           ELSE ret' = [ret EXCEPT !.list = l] /\ UNCHANGED arg
        /\ _options' = IF Held.obj = "_options" THEN l ELSE _options
        /\ _round_results' = IF Held.obj = "_round_results" THEN l ELSE _round_results
    /\ pc' = "mutated"
    /\ UNCHANGED <<_elimination_strategy, _eliminated_options, op, locals, exc>>

\* the caller lets go of the list
Drop ==
    /\ pc \in {"holds", "mutated"}
    /\ op' = "none"
    /\ pc' = "idle"
    /\ arg' = None
    /\ ret' = None
    /\ UNCHANGED <<engine, locals, exc>>

(* ------------------------------ inputs of RoundResult ------------------ *)
RoundNumbers == -1..2
RoundResultArgs ==
    {[round_number |-> n, vote_counts |-> c, eliminated_option |-> None, winner |-> None] :
        n \in RoundNumbers, c \in {<< >>, << <<sA, 1>> >>}}

\* a method is entered only between calls (the engine is single-threaded)
Idle == pc = "idle"

Next ==
    \/ options_getter
    \/ get_round_results
    \/ Idle /\ \E new_options \in OptionLists(OptionArgs) : options_setter(new_options)
    \/ Idle /\ \E option \in OptionArgs : add_option(option)
    \/ Idle /\ \E option \in OptionArgs : remove_option(option)
    \/ clear_results
    \/ Idle /\ \E kwargs \in RoundResultArgs : NewRoundResult(kwargs)
    \/ Idle /\ \E v \in VoteMaps : count_votes(v)
    \/ count_votes_loop
    \/ Exit
    \/ ExitHolding
    \/ CallerMutates
    \/ Drop

Spec == Init /\ [][Next]_vars

\* the same, started before the constructor call
NextNew == __init__ \/ Next

SpecNew == InitNew /\ [][NextNew]_vars

(* ======================= properties of the claims ====================== *)
Last(s) == s[Len(s)]

\* number of working ballots whose first remaining preference is o
FirstPrefCount(cv, o) ==
    Cardinality({i \in 1..Len(cv) : cv[i][2] # << >> /\ cv[i][2][1] = o})

\* number of working ballots that still have a preference
CountedVotes(cv) == Cardinality({i \in 1..Len(cv) : cv[i][2] # << >>})

\* options holding a strict majority of the counted votes
MajorityOptions(opts, cv) ==
    {o \in Range(opts) : 2 * FirstPrefCount(cv, o) > CountedVotes(cv)}

\* options not yet eliminated in this run
ActiveOptions(opts, elim) == Range(opts) \ Range(elim)

\* the tied-for-last set: active options with the minimum count among the active ones
TiedSet(opts, elim, cv) ==
    {o \in ActiveOptions(opts, elim) :
        \A q \in ActiveOptions(opts, elim) : FirstPrefCount(cv, o) <= FirstPrefCount(cv, q)}

\* the step appends one round result to the history
RoundAppended == Len(_round_results') = Len(_round_results) + 1

\* a count_votes call that passed validation has ended
ValidatedCallEnded == op = "count_votes" /\ round_num >= 1 /\ pc \in {"return", "raise"}

\* C1: for a non-empty option set, a round of _calculate_round returns a result that carries a winner if and
\* only if some option's first-preference count is strictly more than half of
\* the counted votes; at most one option qualifies and it is the winner reported.
C1_WinnerIffStrictMajority ==
    [][(pc = "loop" /\ _options # << >>) =>
        LET maj == MajorityOptions(_options, current_votes)
        IN  /\ Cardinality(maj) <= 1
            /\ RoundAppended
            /\ maj # {} => Last(_round_results').winner \in maj
            /\ maj = {} => Last(_round_results').winner = None]_vars

\* C2: when the round computed inside count_votes finds a winner, count_votes
\* returns exactly that option and computes no further round: the last entry of
\* the history has that winner, every earlier entry has no winner and a
\* non-empty elimination list.
C2_WinnerRoundReturns ==
    [][(pc = "loop" /\ MajorityOptions(_options, current_votes) # {}) =>
        /\ pc' = "return"
        /\ winner' \in MajorityOptions(_options, current_votes)
        /\ RoundAppended
        /\ Last(_round_results').winner = winner'
        /\ \A i \in 1..Len(_round_results) :
              /\ _round_results'[i].winner = None
              /\ _round_results'[i].eliminated_options \notin {NoneList, << >>}]_vars

\* C3: under BATCH, for a non-empty option set, a round without a winner eliminates exactly the whole
\* tied-for-last set, each member once and no already-eliminated option.
C3_BatchEliminatesTiedSet ==
    [][(pc = "loop" /\ _options # << >> /\ _elimination_strategy = "BATCH"
            /\ MajorityOptions(_options, current_votes) = {}) =>
        /\ RoundAppended
        /\ Last(_round_results').eliminated_options # NoneList
        /\ Range(Last(_round_results').eliminated_options)
              = TiedSet(_options, _eliminated_options, current_votes)
        /\ NoDuplicates(Last(_round_results').eliminated_options)]_vars

\* C4: under RANDOM, for a non-empty option set, a round without a winner eliminates exactly one option and
\* that option belongs to the tied-for-last set.
C4_RandomEliminatesOneTied ==
    [][(pc = "loop" /\ _options # << >> /\ _elimination_strategy = "RANDOM"
            /\ MajorityOptions(_options, current_votes) = {}) =>
        /\ RoundAppended
        /\ Last(_round_results').eliminated_options # NoneList
        /\ Len(Last(_round_results').eliminated_options) = 1
        /\ Last(_round_results').eliminated_options[1]
              \in TiedSet(_options, _eliminated_options, current_votes)]_vars

\* C5: count_votes fails with the terminal-tie error exactly when a non-winning
\* round leaves every tracked option eliminated (under BATCH: the tied-for-last
\* set is all that was left); the history then holds that final round and no
\* entry carries a winner.
C5_TerminalTieExactlyWhenAllEliminated ==
    [][pc = "loop" =>
        LET lastStanding ==
                /\ MajorityOptions(_options, current_votes) = {}
                /\ ActiveOptions(_options, _eliminated_options) # {}
                /\ \/ _elimination_strategy = "BATCH"
                      /\ TiedSet(_options, _eliminated_options, current_votes)
                            = ActiveOptions(_options, _eliminated_options)
                   \/ Cardinality(ActiveOptions(_options, _eliminated_options)) = 1
            tie == pc' = "raise" /\ exc'.msg = MsgTie
        IN  /\ lastStanding <=> tie
            /\ tie => /\ RoundAppended
                      /\ Range(_options) \subseteq Range(_eliminated_options')
                      /\ \A i \in 1..Len(_round_results') :
                            _round_results'[i].winner = None]_vars

\* C6: a count_votes call that passed validation ends by returning a winner or
\* by raising the terminal-tie error, having computed at most |options| rounds.
C6_EndsWithWinnerOrTie ==
    (op = "count_votes" /\ round_num >= 1) =>
        /\ Len(_round_results) <= Len(_options)
        /\ pc = "raise" => exc.msg = MsgTie

\* C7: for a non-empty option set, round tabulation always yields a round result whose vote-count map has
\* exactly the tracked options as keys and whose values sum to the number of
\* working ballots that still have a preference.
C7_VoteCountsComplete ==
    [][(pc = "loop" /\ _options # << >>) =>
        /\ RoundAppended
        /\ Range(Keys(Last(_round_results').vote_counts)) = Range(_options)
        /\ NoDuplicates(Keys(Last(_round_results').vote_counts))
        /\ Sum(Values(Last(_round_results').vote_counts)) = CountedVotes(current_votes)]_vars

\* C8: for a non-empty option set, each round yields a result for which exactly one holds: its elimination
\* list is non-empty, or it carries a winner.
C8_WinnerXorEliminations ==
    [][(pc = "loop" /\ _options # << >>) =>
        /\ RoundAppended
        /\ (Last(_round_results').winner # None)
              # (Last(_round_results').eliminated_options \notin {NoneList, << >>})]_vars

\* C9: a count_votes call that passed validation ends with a winner or the
\* terminal-tie error and leaves the rounds of this call, numbered 1, 2, ..., k,
\* in the history.
C9_HistoryNumberedFromOne ==
    ValidatedCallEnded =>
        /\ pc = "raise" => exc.msg = MsgTie
        /\ Len(_round_results) >= 1
        /\ \A i \in 1..Len(_round_results) : _round_results[i].round_number = i

\* a ballot mapping with at least one invalid ballot
InvalidBallot(opts, voter, prefs) ==
    \/ ~IsStr(voter)
    \/ Strip(voter) = << >>
    \/ Len(prefs) > Len(opts)
    \/ prefs = << >>
    \/ \E i \in 1..Len(prefs) : prefs[i] = None
    \/ \E i \in 1..Len(prefs) : ~Contains(opts, prefs[i])
    \/ \E i, j \in 1..Len(prefs) : i # j /\ prefs[i] = prefs[j]

InvalidVotes(opts, v) == \E i \in 1..Len(v) : InvalidBallot(opts, v[i][1], v[i][2])

ValidationMsgs == {MsgInvalidVoter, MsgTooMany, MsgEmptyPrefs, MsgInvalidType,
                   MsgInvalidOptions, MsgDuplicatePrefs}

\* C10: a count_votes call whose mapping holds an invalid ballot raises a
\* validation error without entering the round loop, and the round history and
\* the eliminated tracker are, when the error reaches the caller, what they
\* were before the call.
C10_InvalidBallotRejectedStateKept ==
    [][/\ (pc = "idle" /\ op' = "count_votes" /\ InvalidVotes(_options, votes')) =>
            /\ pc' = "raise"
            /\ exc'.type = "ValueError"
            /\ exc'.msg \in ValidationMsgs
            /\ _round_results' = _round_results
            /\ _eliminated_options' = _eliminated_options
       /\ (op = "count_votes" /\ pc = "raise" /\ exc.msg \in ValidationMsgs) =>
            /\ pc' = "idle"
            /\ _round_results' = _round_results
            /\ _eliminated_options' = _eliminated_options]_vars

\* C10 witness: a call with an invalid ballot has raised its validation error
C10_Witness ==
    /\ op = "count_votes"
    /\ pc = "raise"
    /\ exc.msg \in ValidationMsgs
    /\ InvalidVotes(_options, votes)

\* the messages of the validation rules (a)..(f), in the order of precedence
RuleMsgs == <<MsgInvalidVoter, MsgTooMany, MsgEmptyPrefs, MsgInvalidType,
              MsgInvalidOptions, MsgDuplicatePrefs>>

\* the ballot (voter, prefs) violates the k-th rule of that order
Violates(k, opts, voter, prefs) ==
    \/ k = 1 /\ (voter = None \/ \A i \in 1..Len(voter) : voter[i] = " ")
    \/ k = 2 /\ Len(prefs) > Len(opts)
    \/ k = 3 /\ Len(prefs) = 0
    \/ k = 4 /\ \E i \in 1..Len(prefs) : prefs[i] = None
    \/ k = 5 /\ \E i \in 1..Len(prefs) : \A j \in 1..Len(opts) : opts[j] # prefs[i]
    \/ k = 6 /\ \E i, j \in 1..Len(prefs) : i # j /\ prefs[i] = prefs[j]

\* the i-th ballot of the mapping v is the first, in the mapping's order, that
\* violates a rule
FirstInvalid(opts, v, i) ==
    /\ \E k \in 1..6 : Violates(k, opts, v[i][1], v[i][2])
    /\ \A j \in 1..(i - 1) : \A k \in 1..6 : ~Violates(k, opts, v[j][1], v[j][2])

\* C11: when a count_votes call is given a mapping with an invalid ballot, the
\* error raised is the one of the first rule, in the order (a) voter id, (b) too
\* many preferences, (c) empty list, (d) non-string preference, (e) preference
\* outside the option set, (f) duplicate preferences, that the first invalid
\* ballot violates.
C11_FirstViolatedRuleReported ==
    [][(pc = "idle" /\ op' = "count_votes") =>
        \A i \in 1..Len(arg') : \A k \in 1..6 :
            (/\ FirstInvalid(_options, arg', i)
             /\ Violates(k, _options, arg'[i][1], arg'[i][2])
             /\ \A h \in 1..(k - 1) : ~Violates(h, _options, arg'[i][1], arg'[i][2])) =>
                /\ pc' = "raise"
                /\ exc'.msg = RuleMsgs[k]]_vars

\* C11 witness: a ballot with more preferences than options that also repeats a
\* preference has been reported as too many preferences
C11_Witness ==
    /\ op = "count_votes"
    /\ pc = "raise"
    /\ exc.msg = MsgTooMany
    /\ \E i \in 1..Len(arg) :
        /\ FirstInvalid(_options, arg, i)
        /\ Violates(2, _options, arg[i][1], arg[i][2])
        /\ Violates(6, _options, arg[i][1], arg[i][2])

\* C12: in every state after construction the option set is not empty and has
\* no duplicates.
C12_OptionsNeverEmptyNoDuplicates ==
    /\ _options # << >>
    /\ \A i, j \in 1..Len(_options) : i # j => _options[i] # _options[j]

\* C13: add_option with a name in the option set and remove_option with a name
\* not in it raise a validation error, and the option set (content and order),
\* the round history and the eliminated tracker are, up to the caller getting
\* the error, what they were before the call.
C13_FailedAddRemoveKeepState ==
    [][/\ (pc = "idle" /\ op' = "add_option" /\ Contains(_options, arg')) =>
            /\ pc' = "raise"
            /\ exc'.type = "ValueError"
            /\ exc'.msg = MsgOptionExists
            /\ _options' = _options
            /\ _round_results' = _round_results
            /\ _eliminated_options' = _eliminated_options
       /\ (pc = "idle" /\ op' = "remove_option" /\ ~Contains(_options, arg')) =>
            /\ pc' = "raise"
            /\ exc'.type = "ValueError"
            /\ exc'.msg = MsgOptionMissing
            /\ _options' = _options
            /\ _round_results' = _round_results
            /\ _eliminated_options' = _eliminated_options
       /\ (pc = "raise" /\ op \in {"add_option", "remove_option"}) =>
            /\ _options' = _options
            /\ _round_results' = _round_results
            /\ _eliminated_options' = _eliminated_options]_vars

\* C13 witness: add_option of a name already in a set of two or more options
\* has raised
C13_Witness ==
    /\ op = "add_option"
    /\ pc = "raise"
    /\ Len(_options) >= 2
    /\ Contains(_options, arg)

\* the option list raw with each option trimmed
Trimmed(raw) == [i \in 1..Len(raw) |-> Strip(raw[i])]

\* raw is not empty and no two of its options are equal after trimming
ValidOptionList(raw) ==
    /\ raw # << >>
    /\ \A i, j \in 1..Len(raw) : i # j => Strip(raw[i]) # Strip(raw[j])

\* C14: the constructor returns an engine if and only if the option list is not
\* empty and has no duplicates after trimming; the engine then holds exactly
\* the trimmed options in their original order; otherwise a validation error is
\* raised and no engine exists.
C14_ConstructionIffValidOptions ==
    [][pc = "new" =>
        IF ValidOptionList(arg.options.list)
        THEN /\ pc' = "return"
             /\ _options' = Trimmed(arg.options.list)
        ELSE /\ pc' = "raise"
             /\ exc'.type = "ValueError"
             /\ exc'.msg \in {MsgEmptyOptions, MsgDuplicateOptions}
             /\ _options' = NoneList]_vars

\* C14 witness: the constructor has returned an engine for a list with an
\* option that trimming changes
C14_Witness ==
    /\ op = "__init__"
    /\ pc = "return"
    /\ arg.options.list # _options
    /\ _options = Trimmed(arg.options.list)

\* C15: RoundResult(...) returns a RoundResult if and only if round_number is at
\* least 1; for every smaller round_number, 0 included, it raises and no
\* RoundResult is created.
C15_RoundNumberAtLeastOne ==
    (op = "RoundResult" /\ pc \in {"return", "raise"}) =>
        /\ pc = "return" <=> arg.round_number >= 1
        /\ pc = "raise" => ret = None

\* the ballots cv without the options in E, the other preferences in their order
Without(cv, E) ==
    [i \in 1..Len(cv) |-> <<cv[i][1], SelectSeq(cv[i][2], LAMBDA x : x \notin E)>>]

C17_ReturnedListsAreCopies ==
    [][/\ (pc = "holds" /\ pc' = "mutated") =>
            /\ _options' = _options
            /\ _round_results' = _round_results
       /\ (pc = "idle" /\ op' = "options") => ret'.list = _options
       /\ (pc = "idle" /\ op' = "get_round_results") => ret'.list = _round_results]_vars

\* C17 witness: the caller has changed the list that options returned and the
\* engine's option set is not that list
C17_Witness ==
    /\ op = "options"
    /\ pc = "mutated"
    /\ ret.list # _options

\* the outcome of a batch tally of the ballots cv over the options opts when the
\* options in elim are eliminated already: the winner (None for the terminal
\* tie) and the number of rounds
RECURSIVE BatchTally(_, _, _)
BatchTally(opts, elim, cv) ==
    IF MajorityOptions(opts, cv) # {}
    THEN [winner |-> CHOOSE o \in MajorityOptions(opts, cv) : TRUE, rounds |-> 1]
    ELSE LET E == {o \in Range(opts) \ elim :
                      \A q \in Range(opts) \ elim :
                          FirstPrefCount(cv, o) <= FirstPrefCount(cv, q)}
         IN  IF elim \cup E = Range(opts)
             THEN [winner |-> None, rounds |-> 1]
             ELSE LET rest == BatchTally(opts, elim \cup E, Without(cv, E))
                  IN  [winner |-> rest.winner, rounds |-> rest.rounds + 1]

\* C18: under BATCH a count_votes call that passed validation ends, whatever
\* calls came before it, as a batch tally of the passed ballots over the
\* current option set that starts with nothing eliminated: with its winner or
\* its terminal tie, and with its rounds in the history.
C18_OutcomeIsThatOfFreshBatchTally ==
    (ValidatedCallEnded /\ _elimination_strategy = "BATCH" /\ _options # << >>) =>
        LET fresh == BatchTally(_options, {}, arg)
        IN  /\ IF fresh.winner = None
               THEN pc = "raise" /\ exc.msg = MsgTie
               ELSE pc = "return" /\ winner = fresh.winner
            /\ Len(_round_results) = fresh.rounds

\* C19: at the start of every round each working ballot is the ballot the
\* caller passed without the options eliminated so far in this run, the rest in
\* their order; a round without a winner eliminates at least one option and
\* hands the next round the ballots so stripped; and the counts of a round are
\* those of the first remaining preferences, so that a ballot with none left
\* adds to no count.
C19_WorkingBallotsAreOriginalMinusEliminated ==
    [][pc = "loop" =>
        /\ current_votes = Without(arg, Range(_eliminated_options))
        /\ (_options # << >> /\ MajorityOptions(_options, current_votes) = {}) =>
              /\ Range(_eliminated_options') # Range(_eliminated_options)
              /\ current_votes' = Without(arg, Range(_eliminated_options'))
        /\ _options # << >> =>
              /\ RoundAppended
              /\ \A i \in 1..Len(Last(_round_results').vote_counts) :
                    Last(_round_results').vote_counts[i][2]
                        = FirstPrefCount(current_votes, Last(_round_results').vote_counts[i][1])]_vars

\* C20: in every state after construction every option of the engine is a
\* non-empty string without leading or trailing whitespace.
C20_OptionsTrimmedNonEmpty ==
    \A i \in 1..Len(_options) :
        /\ _options[i] # << >>
        /\ _options[i][1] # " "
        /\ _options[i][Len(_options[i])] # " "

\* the options that some ballot of the mapping v ranks
RankedOptions(v) == UNION {Range(v[i][2]) : i \in 1..Len(v)}

\* C21: under RANDOM a count_votes call that passed validation with at least
\* one ballot never ends in the terminal-tie error: it returns a winner, and the
\* winner is an option that some ballot ranks and that was not eliminated in
\* the run.
C21_RandomReturnsRankedWinner ==
    (ValidatedCallEnded /\ _elimination_strategy = "RANDOM" /\ Len(arg) >= 1) =>
        /\ ~(pc = "raise" /\ exc.msg = MsgTie)
        /\ pc = "return"
        /\ winner \in RankedOptions(arg)
        /\ winner \notin Range(_eliminated_options)

\* C22: all through a count_votes run the eliminated tracker holds no option
\* twice and only options of the option set, so its length equals that of the
\* option set exactly when every option is eliminated; and a round that has to
\* find the minimum (no option has a majority) has an option left that is not
\* eliminated, so min() is never given an empty sequence.
C22_TrackerSoundMinNeverEmpty ==
    op = "count_votes" =>
        /\ \A i, j \in 1..Len(_eliminated_options) :
              i # j => _eliminated_options[i] # _eliminated_options[j]
        /\ Range(_eliminated_options) \subseteq Range(_options)
        /\ (Len(_eliminated_options) = Len(_options))
              <=> (Range(_options) \subseteq Range(_eliminated_options))
        /\ (pc = "loop" /\ MajorityOptions(_options, current_votes) = {}) =>
              ActiveOptions(_options, _eliminated_options) # {}
        /\ pc = "raise" => exc.msg # MsgMinEmpty

====
